---- MODULE Spec2Model ----
(***************************************************************************)
(* Model of image-analysis/enrich_trains.py: the slug function, the        *)
(* manifest resolver, the embedding and manifest caches, the zero-shot     *)
(* tagger, the similarity ranker and the per-item controller.              *)
(*                                                                         *)
(* Python strings are sequences of one-character strings; JSON values are  *)
(* tagged records; a Python dict is a function whose DOMAIN is its keys.   *)
(***************************************************************************)
EXTENDS Integers, Sequences, FiniteSets, TLC

VARIABLES
    catalog,      \* the catalog file read by --input (data["items"] on disk)
    items,        \* data["items"] of the running process
    embeddings,   \* the list phase1_fetch_and_tag builds
    embCache,     \* cache_dir/<id>_emb.npy files: id -> vector or Corrupt
    manCache,     \* cache_dir/<slug>.json files: slug -> parsed document
    pc,           \* position of the process
    cfg,          \* command line of the running process
    runs,         \* processes started so far
    limit,        \* processes that may be started
    restarted,    \* the running process is a restart of a killed one
    log,          \* per item: transition taken and collaborator call counts
    links,        \* per item: network outcomes seen since the last fresh start
    startEmb,     \* embCache when the last fresh (non-restart) process started
    startMan,     \* manCache when the last fresh (non-restart) process started
    rerun,        \* how the running process follows the one before it
    doc,          \* function harnesses: the argument under test
    res,          \* function harnesses: the outcome of the call on doc
    rankerRuns    \* executions of phase2_assign_similar by the running process

vars == <<catalog, items, embeddings, embCache, manCache, pc, cfg, runs, limit,
          restarted, log, links, startEmb, startMan, rerun, doc, res, rankerRuns>>

pipeVars == <<catalog, items, embeddings, embCache, manCache, pc, cfg, runs, limit,
              restarted, log, links, startEmb, startMan, rerun, rankerRuns>>

----------------------------------------------------------------------------
(* Python strings                                                          *)

LowerMap == [c \in {"A", "B", "C", "D"} |->
               CASE c = "A" -> "a" [] c = "B" -> "b" [] c = "C" -> "c" [] c = "D" -> "d"]

LowerChar(c) == IF c \in DOMAIN LowerMap THEN LowerMap[c] ELSE c

WordChars == {"a", "b", "c", "d", "e", "h", "m", "p", "s", "t", "u",
              "A", "B", "C", "D", "0", "1", "2", "3", "4", "5", "_"}

SpaceChars == {" ", "\t"}

\* a variant of Take: nothing is cut
TakeAll(s, n) == s

\* s[:n]
Take(s, n) == IF Len(s) <= n THEN s ELSE SubSeq(s, 1, n)

LastN(s, n) == IF Len(s) <= n THEN s ELSE SubSeq(s, Len(s) - n + 1, Len(s))

RECURSIVE LStrip(_)
LStrip(s) == IF s # <<>> /\ Head(s) \in SpaceChars THEN LStrip(Tail(s)) ELSE s

RECURSIVE RStrip(_)
RStrip(s) == IF s # <<>> /\ s[Len(s)] \in SpaceChars
             THEN RStrip(SubSeq(s, 1, Len(s) - 1)) ELSE s

Strip(s) == RStrip(LStrip(s))

\* re.sub(r"[\s_]+", "-", s): every maximal run becomes one hyphen (inRun:
\* the character before s belongs to a run)
CollapseRuns(s, inRun) ==
    LET InRun(i)  == s[i] \in SpaceChars \cup {"_"}
        Starts(i) == IF i = 1 THEN ~inRun ELSE ~InRun(i - 1)
        kept      == SelectSeq([i \in 1..Len(s) |-> i],
                               LAMBDA i : ~InRun(i) \/ Starts(i))
    IN  [n \in 1..Len(kept) |-> IF InRun(kept[n]) THEN "-" ELSE s[kept[n]]]

SlugMax == 80

slugify(text) ==
    LET s1 == [i \in 1..Len(text) |-> LowerChar(text[i])]
        s2 == SelectSeq(s1, LAMBDA c : c \in WordChars \cup SpaceChars \cup {"-"})
        s3 == CollapseRuns(Strip(s2), FALSE)
    IN  Take(s3, SlugMax)

----------------------------------------------------------------------------
(* JSON values and the Python operations the resolver applies to them      *)

JStr(s)  == [t |-> "str",  v |-> s]
JList(l) == [t |-> "list", v |-> l]
JDict(d) == [t |-> "dict", v |-> d]
JNull    == [t |-> "null", v |-> <<>>]
Absent   == [t |-> "absent", v |-> <<>>]

EmptyDict == JDict(<<>>)

Field(k, x) == IF x = Absent THEN <<>> ELSE k :> x

\* bool(x)
Truthy(x) ==
    CASE x.t = "str"  -> x.v # <<>>
      [] x.t = "list" -> x.v # <<>>
      [] x.t = "dict" -> DOMAIN x.v # {}
      [] OTHER        -> FALSE

Ok(x)    == [exc |-> "none", val |-> x]
Raise(e) == [exc |-> e, val |-> JNull]

\* x.get(k, default): only a dict has the method
PyGet(x, k, default) ==
    IF x.t = "dict"
    THEN Ok(IF k \in DOMAIN x.v THEN x.v[k] ELSE default)
    ELSE Raise("AttributeError")

\* x[0]
PyIndex0(x) ==
    CASE x.t = "list" -> IF x.v # <<>> THEN Ok(x.v[1]) ELSE Raise("IndexError")
      [] x.t = "str"  -> IF x.v # <<>> THEN Ok(JStr(<<x.v[1]>>)) ELSE Raise("IndexError")
      [] x.t = "dict" -> Raise("KeyError")
      [] OTHER        -> Raise("TypeError")

IiifSuffix == <<"/", "f", "u", "l", "l", "/", "8", "0", "0", ",", "/", "0", "/",
                "d", "e", "f", "a", "u", "l", "t", ".", "j", "p", "g">>

\* the body of the try block: ret says whether a return statement was reached
PrimaryPath(manifest) ==
    LET r1 == PyGet(manifest, "sequences", JList(<<>>))
    IN  IF r1.exc # "none" THEN [exc |-> r1.exc, ret |-> FALSE, val |-> JNull]
        ELSE IF ~Truthy(r1.val) THEN [exc |-> "none", ret |-> FALSE, val |-> JNull]
        ELSE
        LET r2 == PyIndex0(r1.val)
        IN  IF r2.exc # "none" THEN [exc |-> r2.exc, ret |-> FALSE, val |-> JNull] ELSE
        LET r3 == PyGet(r2.val, "canvases", JList(<<>>))
        IN  IF r3.exc # "none" THEN [exc |-> r3.exc, ret |-> FALSE, val |-> JNull] ELSE
        LET r4 == PyIndex0(r3.val)
        IN  IF r4.exc # "none" THEN [exc |-> r4.exc, ret |-> FALSE, val |-> JNull] ELSE
        LET r5 == PyGet(r4.val, "images", JList(<<>>))
        IN  IF r5.exc # "none" THEN [exc |-> r5.exc, ret |-> FALSE, val |-> JNull] ELSE
        LET r6 == PyIndex0(r5.val)
        IN  IF r6.exc # "none" THEN [exc |-> r6.exc, ret |-> FALSE, val |-> JNull] ELSE
        LET r7 == PyGet(r6.val, "resource", EmptyDict)
        IN  IF r7.exc # "none" THEN [exc |-> r7.exc, ret |-> FALSE, val |-> JNull] ELSE
        LET r8 == PyGet(r7.val, "@id", JStr(<<>>))
        IN  IF r8.exc # "none" THEN [exc |-> r8.exc, ret |-> FALSE, val |-> JNull]
            ELSE IF Truthy(r8.val) THEN [exc |-> "none", ret |-> TRUE, val |-> r8.val]
            ELSE
        LET r9 == PyGet(r7.val, "service", EmptyDict)
        IN  IF r9.exc # "none" THEN [exc |-> r9.exc, ret |-> FALSE, val |-> JNull] ELSE
        LET svc_id == IF r9.val.t = "dict"
                      THEN PyGet(r9.val, "@id", JStr(<<>>)).val
                      ELSE JStr(<<>>)
        IN  IF Truthy(svc_id)
            THEN [exc |-> "none", ret |-> TRUE, val |-> JStr(svc_id.v \o IiifSuffix)]
            ELSE [exc |-> "none", ret |-> FALSE, val |-> JNull]

NotCalled == [exc |-> "pending", val |-> JNull]

CaughtByResolver == {"IndexError", "KeyError", "TypeError"}

\* lines 119-124, after the try statement
ThumbnailPath(manifest) ==
    LET r1 == PyGet(manifest, "thumbnail", JNull)
    IN  IF r1.exc # "none" THEN r1
        ELSE IF ~Truthy(r1.val) THEN Ok(JStr(<<>>))
        ELSE
        LET r2 == IF r1.val.t = "list" THEN PyIndex0(r1.val) ELSE r1
        IN  IF r2.exc # "none" THEN r2
            ELSE PyGet(r2.val, "@id", JStr(<<>>))

extract_image_url(manifest) ==
    LET p == PrimaryPath(manifest)
    IN  IF p.exc = "none" /\ p.ret THEN Ok(p.val)
        ELSE IF p.exc \notin CaughtByResolver \cup {"none"} THEN Raise(p.exc)
        ELSE ThumbnailPath(manifest)

----------------------------------------------------------------------------
(* Manifest documents of every shape the resolver may be handed            *)

Url(c, n) == <<"h", ":", c, n>>

ImgDict(resource) == JDict(Field("resource", resource))

CanvasDict(images) == JDict(Field("images", images))

SeqDict(canvases) == JDict(Field("canvases", canvases))

WithResource(resource) ==
    JList(<<SeqDict(JList(<<CanvasDict(JList(<<ImgDict(resource)>>))>>))>>)

ResourceShapes ==
    { Absent,
      JNull,
      JStr(Url("p", "0")),
      EmptyDict,
      JDict("@id" :> JStr(Url("p", "1"))),
      JDict("@id" :> JStr(Url("p", "1")) @@ "service" :> JDict("@id" :> JStr(Url("s", "1")))),
      JDict("@id" :> JStr(<<>>) @@ "service" :> JDict("@id" :> JStr(Url("s", "1")))),
      JDict("@id" :> JNull @@ "service" :> JDict("@id" :> JStr(Url("s", "1")))),
      JDict("service" :> JDict("@id" :> JStr(Url("s", "1")))),
      JDict("service" :> JDict("@id" :> JStr(<<>>))),
      JDict("service" :> EmptyDict),
      JDict("service" :> JStr(Url("s", "1"))),
      JDict("service" :> JList(<<JDict("@id" :> JStr(Url("s", "1")))>>)),
      JDict("service" :> JNull) }

SequencesShapes ==
    { Absent,
      JNull,
      JList(<<>>),
      JStr(Url("p", "0")),
      JDict("canvases" :> JList(<<>>)),
      JList(<<JStr(Url("p", "0"))>>),
      JList(<<JNull>>),
      JList(<<JList(<<>>)>>),
      JList(<<EmptyDict>>),
      JList(<<SeqDict(JList(<<>>))>>),
      JList(<<SeqDict(JNull)>>),
      JList(<<SeqDict(EmptyDict)>>),
      JList(<<SeqDict(JList(<<JNull>>))>>),
      JList(<<SeqDict(JList(<<EmptyDict>>))>>),
      JList(<<SeqDict(JList(<<CanvasDict(JList(<<>>))>>))>>),
      JList(<<SeqDict(JList(<<CanvasDict(JList(<<JStr(Url("p", "0"))>>))>>))>>) }
    \cup { WithResource(r) : r \in ResourceShapes }

ThumbnailShapes ==
    { Absent,
      JNull,
      EmptyDict,
      JStr(<<>>),
      JList(<<>>),
      JDict("@id" :> JStr(Url("t", "1"))),
      JDict("@id" :> JStr(<<>>)),
      JDict("format" :> JStr(<<"j">>)),
      JList(<<JDict("@id" :> JStr(Url("t", "1")))>>),
      JList(<<JDict("format" :> JStr(<<"j">>))>>),
      JList(<<JStr(Url("t", "1"))>>),
      JList(<<JNull>>),
      JStr(Url("t", "1")) }

Manifest(sequences, thumbnail) ==
    JDict(Field("sequences", sequences) @@ Field("thumbnail", thumbnail))

ManifestDocs ==
    { Manifest(s, t) : s \in SequencesShapes, t \in ThumbnailShapes }

----------------------------------------------------------------------------
(* The catalog source and the remote servers                               *)

MaxItems      == 3
MaxRerunItems == 2
MaxRuns       == 2

\* a Python dict: put replaces or adds one key
Put(d, k, x) == [y \in DOMAIN d \cup {k} |-> IF y = k THEN x ELSE d[y]]

Has(d, k) == k \in DOMAIN d

Record(title, manifest) == ("title" :> title) @@ ("manifest" :> manifest)

\* the listing of the Catalog Source, in its order; the first two titles have
\* the same slug
Sources ==
    << Record(<<"a", "_", "b">>, Url("m", "1")),
       Record(<<"A", " ", "b">>, Url("m", "2")),
       Record(<<"C", "!">>,      Url("m", "3")),
       Record(<<"d">>,           Url("m", "4")) >>

\* a catalog is a non-empty run of at most MaxItems consecutive records
Catalogs ==
    { SubSeq(Sources, a, b) : a \in 1..Len(Sources),
                              b \in 1..Len(Sources) } \ {<<>>}

CatalogsUpTo(n) == { c \in Catalogs : Len(c) <= n }

PrimaryDoc(n) == Manifest(WithResource(JDict("@id" :> JStr(Url("p", n)))), Absent)

ThumbDoc ==
    Manifest(JList(<<SeqDict(JList(<<>>))>>),
             JList(<<JDict("@id" :> JStr(Url("t", "1")))>>))

ServiceDoc ==
    Manifest(WithResource(JDict("@id" :> JStr(<<>>)
                                @@ "service" :> JDict("@id" :> JStr(Url("s", "1"))))),
             Absent)

UnresolvableDoc == Manifest(JList(<<>>), JDict("format" :> JStr(<<"j">>)))

MalformedDoc == Manifest(JList(<<JStr(Url("p", "0"))>>), Absent)

\* the documents the manifest server may hold under a manifest URI
RemoteDocs(url) ==
    CASE url = Url("m", "1") -> {ServiceDoc}
      [] url = Url("m", "2") -> {PrimaryDoc("1")}
      [] url = Url("m", "3") -> {ThumbDoc}
      [] url = Url("m", "4") -> {PrimaryDoc("2"), UnresolvableDoc, MalformedDoc}
      [] OTHER               -> {}

Timeout == [status |-> "timeout", body |-> JNull]
Unused  == [status |-> "unused",  body |-> JNull]
Served(body) == [status |-> "ok", body |-> body]

\* what one GET of a manifest URI may give
ManifestResponses(url) == {Timeout} \cup { Served(d) : d \in RemoteDocs(url) }

\* what one GET of an image URL may give: the picture behind it, or a failure
NoImage == 0

RemoteImage(url) ==
    CASE url = Url("p", "1")               -> 1
      [] url = Url("t", "1")               -> 2
      [] url = Url("s", "1") \o IiifSuffix -> 3
      [] url = Url("p", "2")               -> 4
      [] OTHER                             -> NoImage

ImageResponses == {"ok", "timeout"}

----------------------------------------------------------------------------
(* The vision-language model: image features, label features, ranking      *)

None == <<>>

\* image features of the four pictures, all of one norm
ImageFeatures == << <<5, 0>>, <<3, 4>>, <<4, 3>>, <<0, 5>> >>

\* TAG_PROMPTS: tag name -> prompt, in vocabulary order
TAG_PROMPTS ==
    << [label |-> "steam locomotive", prompt |-> "a steam locomotive"],
       [label |-> "station / depot",  prompt |-> "a railroad station"],
       [label |-> "photograph",       prompt |-> "a photographic image"] >>

TextFeatures ==
    ("a steam locomotive" :> <<1, 0>>) @@ ("a railroad station" :> <<0, 1>>)
    @@ ("a photographic image" :> <<1, 0>>)

Dot(a, b) == a[1] * b[1] + a[2] * b[2]

get_embedding(image) == ImageFeatures[image]

\* a variant of InsertDesc: an element goes before those of equal score
InsertBeforeEqual(sorted, x) ==
    LET n == Cardinality({ i \in 1..Len(sorted) : sorted[i][2] > x[2] })
    IN  SubSeq(sorted, 1, n) \o <<x>> \o SubSeq(sorted, n + 1, Len(sorted))

\* sorted(pairs, key=lambda x: -x[1]): pairs are <<element, score>>; the sort
\* is stable
InsertDesc(sorted, x) ==
    LET n == Cardinality({ i \in 1..Len(sorted) : sorted[i][2] >= x[2] })
    IN  SubSeq(sorted, 1, n) \o <<x>> \o SubSeq(sorted, n + 1, Len(sorted))

\* a variant of SortDesc: the pairs stay in vocabulary order
Unsorted(s) == s

RECURSIVE SortDesc(_)
SortDesc(s) ==
    IF s = <<>> THEN <<>>
    ELSE InsertDesc(SortDesc(SubSeq(s, 1, Len(s) - 1)), s[Len(s)])

\* a variant of Top: the slice is forgotten
TopAll(ranked, top_k) == [i \in 1..Len(ranked) |-> ranked[i][1]]

\* ranked[:top_k] for top_k >= 0
Top(ranked, top_k) == [i \in 1..(IF Len(ranked) <= top_k THEN Len(ranked) ELSE top_k)
                         |-> ranked[i][1]]

zero_shot_from_embedding(image_emb, labels, top_k) ==
    LET scored == [i \in 1..Len(labels) |-> <<labels[i], Dot(image_emb, TextFeatures[labels[i]])>>]
    IN  Top(SortDesc(scored), top_k)

\* the model scores the image through its image features
zero_shot(image, labels, top_k) ==
    LET scored == [i \in 1..Len(labels) |->
                     <<labels[i], Dot(get_embedding(image), TextFeatures[labels[i]])>>]
    IN  Top(SortDesc(scored), top_k)

prompts == [i \in 1..Len(TAG_PROMPTS) |-> TAG_PROMPTS[i].prompt]

prompt_to_label(p) ==
    IF \E i \in 1..Len(TAG_PROMPTS) : TAG_PROMPTS[i].prompt = p
    THEN TAG_PROMPTS[CHOOSE i \in 1..Len(TAG_PROMPTS) :
                        /\ TAG_PROMPTS[i].prompt = p
                        /\ \A j \in (i + 1)..Len(TAG_PROMPTS) : TAG_PROMPTS[j].prompt # p].label
    ELSE p

----------------------------------------------------------------------------
(* The caches                                                              *)

File(data)  == [readable |-> TRUE,  data |-> data]
TornFile    == [readable |-> FALSE, data |-> <<>>]

ManifestTail == 60

\* fetch_manifest: the cached document when it parses, else one GET
fetch_manifest(url, mc, response) ==
    LET slug == slugify(LastN(url, ManifestTail))
    IN  IF slug \in DOMAIN mc /\ mc[slug].readable
        THEN [val |-> mc[slug].data, mc |-> mc, fetches |-> 0]
        ELSE IF response.status = "ok"
             THEN [val |-> response.body, mc |-> Put(mc, slug, File(response.body)), fetches |-> 1]
             ELSE [val |-> JNull, mc |-> mc, fetches |-> 1]

\* fetch_image: the picture, or NoImage for the None the except clause returns
fetch_image(url, response) ==
    IF response = "ok" THEN RemoteImage(url) ELSE NoImage

\* a variant of save_embedding: nothing is written
save_nothing(ec, item_id, emb) == ec

save_embedding(ec, item_id, emb) == Put(ec, item_id, File(emb))

\* a variant of load_embedding: the cache directory is never read
load_nothing(ec, item_id) == [exc |-> "none", val |-> None]

\* np.load raises on a file it cannot read
load_embedding(ec, item_id) ==
    IF item_id \in DOMAIN ec
    THEN IF ec[item_id].readable THEN [exc |-> "none", val |-> ec[item_id].data]
                                 ELSE [exc |-> "ValueError", val |-> None]
    ELSE [exc |-> "none", val |-> None]

----------------------------------------------------------------------------
(* phase1_fetch_and_tag: one iteration of the loop over the items          *)

Labels(top_prompts) == [i \in 1..Len(top_prompts) |-> prompt_to_label(top_prompts[i])]

\* what the iteration did: the file load_embedding found, the exception that
\* left the loop (if any), the transition taken and the collaborator calls
Step(item, ec, mc, emb, found, exc, trans, mf, imf, ew, tc) ==
    [item |-> item, ec |-> ec, mc |-> mc, emb |-> emb, exc |-> exc,
     log |-> [cache |-> found, exc |-> exc, trans |-> trans,
              manifestFetches |-> mf, imageFetches |-> imf,
              embWrites |-> ew, taggerCalls |-> tc]]

\* a variant of IsCached: the cached embedding is never used
NeverCached(cached_emb) == FALSE

\* line 192
IsCached(cached_emb) == cached_emb # None

\* a variant of RetagWanted: the tags are recomputed on every run
RetagAlways(force_retag, item) == TRUE

\* a variant of RetagWanted: only --force-retag recomputes the tags
RetagOnForce(force_retag, item) == force_retag

\* line 193
RetagWanted(force_retag, item) == force_retag \/ ~Has(item, "visual_tags")

\* a variant of NoManifestUrl: null is recorded instead of the empty string
NullManifestUrl == JNull

\* line 204: the image_url recorded when the manifest could not be had
NoManifestUrl == JStr(<<>>)

\* a variant of CachedEntry: the cached branch records no embedding
CachedEntryDropped(cached_emb) == None

\* line 199: what the cached branch appends to the embeddings list
CachedEntry(cached_emb) == cached_emb

\* what is on disk under the item's id when the iteration starts
CacheFile(ec, item_id) ==
    IF item_id \notin DOMAIN ec THEN "absent"
    ELSE IF ec[item_id].readable THEN "present" ELSE "torn"

\* lines 202-227: the item has no cached embedding
FetchPath(item, ec, mc, c, mresp, iresp, found) ==
    LET fm == fetch_manifest(item["manifest"], mc, mresp)
    IN  IF ~Truthy(fm.val)
        THEN Step(Put(item, "image_url", NoManifestUrl), ec, fm.mc, None, found, "none",
                  "fetch-failed", fm.fetches, 0, 0, 0)
        ELSE
        LET ex == extract_image_url(fm.val)
        IN  IF ex.exc # "none"
            THEN Step(item, ec, fm.mc, None, found, ex.exc, "raised", fm.fetches, 0, 0, 0)
            ELSE
            LET item2 == Put(item, "image_url", ex.val)
            IN  IF ~Truthy(ex.val)
                THEN Step(item2, ec, fm.mc, None, found, "none", "fetch-failed",
                          fm.fetches, 0, 0, 0)
                ELSE
                LET image == fetch_image(ex.val.v, iresp)
                IN  IF image = NoImage
                    THEN Step(item2, ec, fm.mc, None, found, "none", "fetch-failed",
                              fm.fetches, 1, 0, 0)
                    ELSE
                    LET tags == Labels(zero_shot(image, prompts, c.top_tags))
                        emb  == get_embedding(image)
                    IN  Step(Put(item2, "visual_tags", tags),
                             save_embedding(ec, item2["id"], emb), fm.mc, emb, found,
                             "none", "tagged-and-cached", fm.fetches, 1, 1, 1)

\* lines 188-227
LoopBody(item0, ec, mc, c, mresp, iresp) ==
    LET item   == Put(item0, "id", slugify(item0["title"]))
        found  == CacheFile(ec, item["id"])
        cached == load_embedding(ec, item["id"])
    IN  IF cached.exc # "none"
        THEN Step(item, ec, mc, None, found, cached.exc, "raised", 0, 0, 0, 0)
        ELSE IF IsCached(cached.val)
        THEN IF RetagWanted(c.force_retag, item)
             THEN Step(Put(item, "visual_tags",
                           Labels(zero_shot_from_embedding(cached.val, prompts, c.top_tags))),
                       ec, mc, CachedEntry(cached.val), found, "none",
                       "tagged-and-cached", 0, 0, 0, 1)
             ELSE Step(item, ec, mc, CachedEntry(cached.val), found, "none",
                       "skipped-cached", 0, 0, 0, 0)
        ELSE FetchPath(item, ec, mc, c, mresp, iresp, found)

\* the loop of phase1_fetch_and_tag run to its end over the items from
\* position i on, the network answering item n with lk[n]
RECURSIVE Phase1From(_, _, _, _, _, _, _)
Phase1From(its, i, embs, ec, mc, c, lk) ==
    IF i > Len(its) THEN [items |-> its, embeddings |-> embs, exc |-> "none"]
    ELSE LET mresp == IF lk[i].manifest = Unused THEN Timeout ELSE lk[i].manifest
             iresp == IF lk[i].image = "unused" THEN "timeout" ELSE lk[i].image
             st    == LoopBody(its[i], ec, mc, c, mresp, iresp)
         IN  IF st.exc # "none"
             THEN [items |-> [its EXCEPT ![i] = st.item], embeddings |-> embs, exc |-> st.exc]
             ELSE Phase1From([its EXCEPT ![i] = st.item], i + 1, Append(embs, st.emb),
                             st.ec, st.mc, c, lk)

phase1_fetch_and_tag(its, ec, mc, c, lk) == Phase1From(its, 1, <<>>, ec, mc, c, lk)

----------------------------------------------------------------------------
(* phase2_assign_similar                                                   *)

cosine_sim_matrix(embs) == [a \in 1..Len(embs) |-> [b \in 1..Len(embs) |-> Dot(embs[a], embs[b])]]

\* line 233: the positions that have an embedding
ValidIndices(embs) == SelectSeq([i \in 1..Len(embs) |-> i], LAMBDA i : embs[i] # None)

\* a variant of TooFewValid: only an empty batch is left alone
NoneValid(valid) == Len(valid) < 1

\* line 234
TooFewValid(valid) == Len(valid) < 2

\* a variant of NotSelf: the item itself is kept among its neighbours
SelfKept(valid_indices, j, i) == TRUE

\* line 246: the filter of the comprehension
NotSelf(valid_indices, j, i) == valid_indices[j] # i

\* lines 243-247 before the slice: <<id, score>> of every kept column
Similar(sorted_j, valid_indices, ids, i) ==
    LET kept == SelectSeq(sorted_j, LAMBDA x : NotSelf(valid_indices, x[1], i))
    IN  [n \in 1..Len(kept) |-> <<ids[valid_indices[kept[n][1]]], kept[n][2]>>]

phase2_assign_similar(its, embs, ids, top_similar) ==
    LET valid_indices == ValidIndices(embs)
        valid_embs    == [r \in 1..Len(valid_indices) |-> embs[valid_indices[r]]]
        sim           == cosine_sim_matrix(valid_embs)
        RankOf(i)     == CHOOSE r \in 1..Len(valid_indices) : valid_indices[r] = i
        Row(i)        == [j \in 1..Len(valid_indices) |-> <<j, sim[RankOf(i)][j]>>]
    IN  IF TooFewValid(valid_indices) THEN its
        ELSE [i \in 1..Len(its) |->
                IF embs[i] # None
                THEN Put(its[i], "similar_items",
                         Top(Similar(SortDesc(Row(i)), valid_indices, ids, i), top_similar))
                ELSE its[i]]

\* line 285
Ids(its) == [i \in 1..Len(its) |-> its[i]["id"]]

\* lines 284-286 run to their end: the items main would write, or the
\* exception that ends the process
Enrich(input, ec, mc, c, lk) ==
    LET p1 == phase1_fetch_and_tag(input, ec, mc, c, lk)
    IN  IF p1.exc # "none" THEN [items |-> <<>>, exc |-> p1.exc]
        ELSE [items |-> phase2_assign_similar(p1.items, p1.embeddings, Ids(p1.items),
                                              c.top_similar),
              exc |-> "none"]

----------------------------------------------------------------------------
(* main: the processes                                                     *)

TagCounts     == {1, 2}
SimilarCounts == {1, 2}

\* the command lines tried: --top-tags and --top-similar are varied together,
\* and --force-retag comes with the larger counts
Configs == { c \in [top_tags : TagCounts, top_similar : SimilarCounts,
                    force_retag : BOOLEAN, dry_run : BOOLEAN] :
               /\ c.top_tags = c.top_similar
               /\ c.force_retag => c.top_tags = 2
               /\ ~c.dry_run }

NoConfig == [top_tags |-> 0, top_similar |-> 0, force_retag |-> FALSE, dry_run |-> TRUE]

NoLinks(n) == [i \in 1..n |-> [manifest |-> Unused, image |-> "unused"]]

Fresh ==
    /\ items = <<>>
    /\ embeddings = <<>>
    /\ embCache = <<>>
    /\ manCache = <<>>
    /\ pc = "idle"
    /\ cfg = NoConfig
    /\ runs = 0
    /\ restarted = FALSE
    /\ log = <<>>
    /\ links = NoLinks(Len(catalog))
    /\ startEmb = <<>>
    /\ startMan = <<>>
    /\ rerun = "no"
    /\ doc = JNull
    /\ res = NotCalled
    /\ rankerRuns = 0

\* a new catalog and an empty cache directory; processes follow one another
Init ==
    /\ catalog \in CatalogsUpTo(MaxRerunItems)
    /\ limit = MaxRuns
    /\ Fresh

\* a new catalog and an empty cache directory; one process
InitOnce ==
    /\ catalog \in CatalogsUpTo(MaxItems)
    /\ limit = 1
    /\ Fresh

\* how a process started with command line c follows the one before it: with
\* the same command line, on the artifact that one wrote and the cache
\* directory it left (then "clean" when that one had an embedding for every
\* item, "retry" when some item of it was fetch-failed), or not ("no")
Follows(c) ==
    IF pc = "done" /\ c = cfg /\ ~cfg.dry_run
    THEN IF \E i \in 1..Len(log) : log[i].trans = "fetch-failed" THEN "retry" ELSE "clean"
    ELSE "no"

\* lines 266-282 of a process started with a new command line
StartRun ==
    /\ pc \in {"idle", "done", "cleared", "crashed"}
    /\ runs < limit
    /\ \E c \in Configs : cfg' = c /\ rerun' = Follows(c)
    /\ items' = catalog
    /\ embeddings' = <<>>
    /\ log' = <<>>
    /\ links' = NoLinks(Len(catalog))
    /\ startEmb' = embCache
    /\ startMan' = manCache
    /\ runs' = runs + 1
    /\ restarted' = FALSE
    /\ rankerRuns' = 0
    /\ pc' = "phase1"
    /\ UNCHANGED <<catalog, embCache, manCache, limit, doc, res>>

\* the same command line again after the process was killed
Restart ==
    /\ pc = "killed"
    /\ runs < limit
    /\ items' = catalog
    /\ embeddings' = <<>>
    /\ log' = <<>>
    /\ runs' = runs + 1
    /\ restarted' = TRUE
    /\ pc' = "phase1"
    /\ rerun' = "no"
    /\ rankerRuns' = 0
    /\ UNCHANGED <<catalog, embCache, manCache, cfg, limit, links, startEmb, startMan,
                   doc, res>>

\* the responses the network may give item i: those already seen since the
\* last fresh start are given again
MayRespondManifest(i) ==
    IF links[i].manifest # Unused THEN {links[i].manifest}
    ELSE ManifestResponses(items[i]["manifest"])

MayRespondImage(i) ==
    IF links[i].image # "unused" THEN {links[i].image} ELSE ImageResponses

Seen(old, st, mresp, iresp) ==
    [manifest |-> IF st.log.manifestFetches > 0 THEN mresp ELSE old.manifest,
     image    |-> IF st.log.imageFetches > 0 THEN iresp ELSE old.image]

\* one iteration of the loop of phase1_fetch_and_tag
Phase1Step ==
    /\ pc = "phase1"
    /\ Len(embeddings) < Len(items)
    /\ LET i == Len(embeddings) + 1
       IN  \E mresp \in MayRespondManifest(i), iresp \in MayRespondImage(i) :
             \E st \in {LoopBody(items[i], embCache, manCache, cfg, mresp, iresp)} :
                 /\ items' = [items EXCEPT ![i] = st.item]
                 /\ embCache' = st.ec
                 /\ manCache' = st.mc
                 /\ log' = Append(log, st.log)
                 /\ links' = [links EXCEPT ![i] = Seen(@, st, mresp, iresp)]
                 /\ IF st.exc = "none"
                    THEN /\ embeddings' = Append(embeddings, st.emb)
                         /\ pc' = "phase1"
                    ELSE /\ embeddings' = embeddings
                         /\ pc' = "crashed"
    /\ UNCHANGED <<catalog, cfg, runs, limit, restarted, startEmb, startMan, rerun, doc, res, rankerRuns>>

\* lines 285-286
Phase2 ==
    /\ pc = "phase1"
    /\ Len(embeddings) = Len(items)
    /\ items' = phase2_assign_similar(items, embeddings, Ids(items), cfg.top_similar)
    /\ rankerRuns' = rankerRuns + 1
    /\ pc' = "ranked"
    /\ UNCHANGED <<catalog, embeddings, embCache, manCache, cfg, runs, limit, restarted,
                   log, links, startEmb, startMan, rerun, doc, res>>

\* lines 297-303: the artifact is written over the input unless --dry-run
Write ==
    /\ pc = "ranked"
    /\ catalog' = IF cfg.dry_run THEN catalog ELSE items
    /\ pc' = "done"
    /\ UNCHANGED <<items, embeddings, embCache, manCache, cfg, runs, limit, restarted,
                   log, links, startEmb, startMan, rerun, doc, res, rankerRuns>>

\* the process is killed between two iterations or before the write: what
\* it held in memory is lost, the cache directory stays as it is (a kill
\* that nothing can follow is left out)
Kill ==
    /\ pc \in {"phase1", "ranked"}
    /\ runs < limit
    /\ pc' = "killed"
    /\ items' = <<>>
    /\ embeddings' = <<>>
    /\ log' = <<>>
    /\ UNCHANGED <<catalog, embCache, manCache, cfg, runs, limit, restarted, links,
                   startEmb, startMan, rerun, doc, res, rankerRuns>>

\* the process is killed while np.save (line 167) is writing the file of the
\* current item: the file exists and cannot be read
KillDuringSave ==
    /\ pc = "phase1"
    /\ runs < limit
    /\ Len(embeddings) < Len(items)
    /\ LET i == Len(embeddings) + 1
       IN  \E mresp \in MayRespondManifest(i), iresp \in MayRespondImage(i) :
             \E st \in {LoopBody(items[i], embCache, manCache, cfg, mresp, iresp)} :
                 /\ st.log.embWrites = 1
                 /\ embCache' = Put(embCache, st.item["id"], TornFile)
                 /\ manCache' = st.mc
                 /\ links' = [links EXCEPT ![i] = Seen(@, st, mresp, iresp)]
    /\ pc' = "killed"
    /\ items' = <<>>
    /\ embeddings' = <<>>
    /\ log' = <<>>
    /\ UNCHANGED <<catalog, cfg, runs, limit, restarted, startEmb, startMan, rerun, doc, res, rankerRuns>>

\* between two processes the cache directory is emptied (or another
\* --cache-dir is named)
ClearCache ==
    /\ pc = "done"
    /\ runs < limit
    /\ embCache # <<>>
    /\ embCache' = <<>>
    /\ manCache' = <<>>
    /\ pc' = "cleared"
    /\ UNCHANGED <<catalog, items, embeddings, cfg, runs, limit, restarted, log, links,
                   startEmb, startMan, rerun, doc, res, rankerRuns>>

Next ==
    \/ StartRun
    \/ Restart
    \/ Phase1Step
    \/ Phase2
    \/ Write
    \/ Kill
    \/ KillDuringSave
    \/ ClearCache

Spec == Init /\ [][Next]_vars

NextOnce == StartRun \/ Phase1Step \/ Phase2 \/ Write

SpecOnce == InitOnce /\ [][NextOnce]_vars

----------------------------------------------------------------------------
(* Harness for the resolver: one call of extract_image_url per document    *)

PipeIdle ==
    /\ catalog = <<>> /\ items = <<>> /\ embeddings = <<>>
    /\ embCache = <<>> /\ manCache = <<>> /\ pc = "off"
    /\ cfg = <<>> /\ runs = 0 /\ limit = 0 /\ restarted = FALSE
    /\ log = <<>> /\ links = <<>> /\ startEmb = <<>> /\ startMan = <<>>
    /\ rerun = "no" /\ rankerRuns = 0

InitResolver ==
    /\ PipeIdle
    /\ doc \in ManifestDocs
    /\ res = NotCalled

CallResolver ==
    /\ res = NotCalled
    /\ res' = extract_image_url(doc)
    /\ UNCHANGED <<doc, pipeVars>>

NextResolver == CallResolver

SpecResolver == InitResolver /\ [][NextResolver]_vars

----------------------------------------------------------------------------
(* Harness for slugify: one call per title                                 *)

MaxTitleLen == 3

\* the characters titles are made of: letters of both cases, the two kinds
\* of white space, underscore, hyphen and punctuation
TitleChars == {"a", "A", " ", "\t", "_", "-", "!"}

RECURSIVE Strings(_, _)
Strings(chars, n) ==
    IF n = 0 THEN {<<>>}
    ELSE {<<>>} \cup { <<c>> \o t : c \in chars, t \in Strings(chars, n - 1) }

Pad(n) == [i \in 1..n |-> "e"]

\* short titles, and titles that reach past the slice of line 81
Titles ==
    Strings(TitleChars, MaxTitleLen)
    \cup { Pad(n) \o t : n \in {SlugMax - 2, SlugMax - 1, SlugMax},
                         t \in Strings(TitleChars, MaxTitleLen) }

InitSlug ==
    /\ PipeIdle
    /\ doc \in Titles
    /\ res = NotCalled

CallSlugify ==
    /\ res = NotCalled
    /\ res' = Ok(slugify(doc))
    /\ UNCHANGED <<doc, pipeVars>>

NextSlug == CallSlugify

SpecSlug == InitSlug /\ [][NextSlug]_vars

----------------------------------------------------------------------------
(* The bulk scanners: fetch_image_from_manifest of                         *)
(* scan_warposters_for_trains.py and scan_temple_history_for_trains.py     *)
(* (the two functions are the same statement for statement)                *)

Full     == <<"/", "f", "u", "l", "l", "/">>
Size800  == Full \o <<"8", "0", "0", ",", "/">>
Size400  == Full \o <<"4", "0", "0", ",", "/">>
FullFull == Full \o <<"f", "u", "l", "l", "/">>
DefaultJpg == <<"0", "/", "d", "e", "f", "a", "u", "l", "t", ".", "j", "p", "g">>

ScanSuffix == Size400 \o DefaultJpg

\* sub in s
RECURSIVE Contains(_, _)
Contains(s, sub) ==
    IF Len(s) < Len(sub) THEN FALSE
    ELSE IF SubSeq(s, 1, Len(sub)) = sub THEN TRUE
    ELSE Contains(Tail(s), sub)

\* s.replace(old, new): the occurrences from the left, not overlapping
RECURSIVE Replace(_, _, _)
Replace(s, old, new) ==
    IF Len(s) < Len(old) THEN s
    ELSE IF SubSeq(s, 1, Len(old)) = old
         THEN new \o Replace(SubSeq(s, Len(old) + 1, Len(s)), old, new)
         ELSE <<Head(s)>> \o Replace(Tail(s), old, new)

\* the smaller rendition asked for when the URL is an IIIF image request
Smaller(url) ==
    IF Contains(url, Full)
    THEN Replace(Replace(url, Size800, Size400), FullFull, Size400)
    ELSE url

\* r.get(k, default) and r[0] on the outcome of the step before
ThenGet(r, k, default) == IF r.exc # "none" THEN r ELSE PyGet(r.val, k, default)

ThenIndex0(r) == IF r.exc # "none" THEN r ELSE PyIndex0(r.val)

\* seq[0].get("canvases", [])[0].get("images", [])[0].get("resource", {})
ScanResource(seq) ==
    ThenGet(ThenIndex0(ThenGet(ThenIndex0(ThenGet(ThenIndex0(Ok(seq)),
            "canvases", JList(<<>>))), "images", JList(<<>>))), "resource", EmptyDict)

\* the service identifier with the size suffix, or nothing
ScanService(svc) ==
    IF svc.exc # "none" THEN svc
    ELSE IF svc.val.t = "dict" /\ Truthy(PyGet(svc.val, "@id", JStr(<<>>)).val)
    THEN Ok(JStr(PyGet(svc.val, "@id", JStr(<<>>)).val.v \o ScanSuffix))
    ELSE Ok(JStr(<<>>))

ScanPick(resource, url) ==
    IF url.exc # "none" THEN url
    ELSE IF Truthy(url.val) THEN url
    ELSE ScanService(PyGet(resource, "service", EmptyDict))

\* the url of the primary path
ScanUrl(seq) ==
    IF ScanResource(seq).exc # "none" THEN ScanResource(seq)
    ELSE ScanPick(ScanResource(seq).val, PyGet(ScanResource(seq).val, "@id", JStr(<<>>)))

\* the url of the thumbnail path
ScanThumbnailUrl(m) ==
    IF PyGet(m, "thumbnail", JNull).exc # "none" THEN PyGet(m, "thumbnail", JNull)
    ELSE IF ~Truthy(PyGet(m, "thumbnail", JNull).val) THEN Ok(JStr(<<>>))
    ELSE ThenGet(IF PyGet(m, "thumbnail", JNull).val.t = "list"
                 THEN PyIndex0(PyGet(m, "thumbnail", JNull).val)
                 ELSE PyGet(m, "thumbnail", JNull),
                 "@id", JStr(<<>>))

\* return None: after the except clause caught exc, or with nothing found
NoPicture == [opened |-> FALSE, url |-> <<>>]

Picture(url) == [opened |-> TRUE, url |-> url]

ScanNone(exc, gets) == [exc |-> exc, val |-> NoPicture, gets |-> gets]

\* requests.get(url), raise_for_status, Image.open
ScanGet(url, iresp) ==
    IF iresp = "ok" THEN [exc |-> "none", val |-> Picture(url), gets |-> <<url>>]
    ELSE ScanNone("HTTPError", <<url>>)

ScanFallback(m, t, iresp) ==
    IF t.exc # "none" THEN ScanNone(t.exc, <<>>)
    ELSE IF Truthy(t.val) THEN ScanGet(t.val.v, iresp)
    ELSE ScanNone("none", <<>>)

ScanPrimary(m, u, iresp) ==
    IF u.exc # "none" THEN ScanNone(u.exc, <<>>)
    ELSE IF Truthy(u.val) THEN ScanGet(Smaller(u.val.v), iresp)
    ELSE ScanFallback(m, ScanThumbnailUrl(m), iresp)

ScanBody(m, seq, iresp) ==
    IF seq.exc # "none" THEN ScanNone(seq.exc, <<>>)
    ELSE IF Truthy(seq.val) THEN ScanPrimary(m, ScanUrl(seq.val), iresp)
    ELSE ScanFallback(m, ScanThumbnailUrl(m), iresp)

\* the image, or NoPicture for None; exc is the exception the except clause caught and
\* gets the image URLs requested
fetch_image_from_manifest(mresp, iresp) ==
    IF mresp.status # "ok" THEN ScanNone("HTTPError", <<>>)
    ELSE ScanBody(mresp.body, PyGet(mresp.body, "sequences", JList(<<>>)), iresp)

\* manifests whose resource identifier is an IIIF image request
SizedDocs ==
    { Manifest(WithResource(JDict("@id" :> JStr(Url("p", "1") \o sz \o DefaultJpg))), t) :
        sz \in {Size800, Size400, FullFull}, t \in {Absent, JDict("@id" :> JStr(Url("t", "1")))} }

ScanDocs == ManifestDocs \cup SizedDocs

InitScan ==
    /\ PipeIdle
    /\ doc \in ScanDocs
    /\ res = NotCalled

CallScan ==
    /\ res = NotCalled
    /\ \E mresp \in {Timeout, Served(doc)}, iresp \in ImageResponses :
          res' = [manifest |-> mresp.status, image |-> iresp,
                  out |-> fetch_image_from_manifest(mresp, iresp)]
    /\ UNCHANGED <<doc, pipeVars>>

NextScan == CallScan

SpecScan == InitScan /\ [][NextScan]_vars

----------------------------------------------------------------------------
(* Harness for phase2_assign_similar: one call per batch                   *)

MaxBatch == 4

\* what phase1_fetch_and_tag may leave at one position of its list
Entries == {None} \cup { ImageFeatures[n] : n \in 1..Len(ImageFeatures) }

RECURSIVE Lists(_, _)
Lists(elems, n) ==
    IF n = 0 THEN {<<>>}
    ELSE {<<>>} \cup { <<e>> \o l : e \in elems, l \in Lists(elems, n - 1) }

Digits == <<"1", "2", "3", "4", "5">>

StaleList == << <<"o", "l", "d">> >>

\* the items of a batch after phase 1: ids that differ, and either no
\* similar_items or the list an earlier run left
BatchItems(n, stale) ==
    [i \in 1..n |->
        IF stale THEN ("id" :> <<"i", Digits[i]>>) @@ ("similar_items" :> StaleList)
        ELSE ("id" :> <<"i", Digits[i]>>)]

\* the values of --top-similar tried
Batches ==
    { [embs |-> l, items |-> BatchItems(Len(l), st), top_similar |-> n] :
        l \in Lists(Entries, MaxBatch) \ {<<>>}, st \in BOOLEAN, n \in 0..(MaxBatch - 1) }

InitRanker ==
    /\ PipeIdle
    /\ doc \in Batches
    /\ res = NotCalled

CallRanker ==
    /\ res = NotCalled
    /\ res' = Ok(phase2_assign_similar(doc.items, doc.embs, Ids(doc.items),
                                        doc.top_similar))
    /\ UNCHANGED <<doc, pipeVars>>

NextRanker == CallRanker

SpecRanker == InitRanker /\ [][NextRanker]_vars

----------------------------------------------------------------------------
(* Harness for the tagger: one image or one stored embedding, a label      *)
(* vocabulary in some order, a tag count                                   *)

MaxScore == 2

\* image features beyond those of the four pictures
Vectors == { <<x, y>> : x \in 0..MaxScore, y \in 0..MaxScore }

\* every vocabulary made of the prompts: each selection, in each order
Vocabularies ==
    { l \in Lists({ prompts[n] : n \in 1..Len(prompts) }, Len(prompts)) :
        \A a, b \in 1..Len(l) : a # b => l[a] # l[b] }

\* the values of --top-tags tried
TagCalls ==
    { [image |-> 0, emb |-> v, labels |-> l, top_k |-> k] :
        v \in Vectors, l \in Vocabularies, k \in 0..(Len(prompts) + 1) }
    \cup
    { [image |-> n, emb |-> get_embedding(n), labels |-> l, top_k |-> k] :
        n \in 1..Len(ImageFeatures), l \in Vocabularies, k \in 0..(Len(prompts) + 1) }

InitTagger ==
    /\ PipeIdle
    /\ doc \in TagCalls
    /\ res = NotCalled

\* lines 221-226 and, in a later run, line 194: the image is tagged, its
\* embedding stored, and the tags are computed again from the embedding
TagImage ==
    /\ res = NotCalled
    /\ doc.image # 0
    /\ res' = [exc |-> "none",
               val |-> zero_shot(doc.image, doc.labels, doc.top_k),
               again |-> zero_shot_from_embedding(get_embedding(doc.image), doc.labels,
                                                  doc.top_k)]
    /\ UNCHANGED <<doc, pipeVars>>

\* line 194: the tags are computed from a stored embedding
TagEmbedding ==
    /\ res = NotCalled
    /\ doc.image = 0
    /\ res' = [exc |-> "none",
               val |-> zero_shot_from_embedding(doc.emb, doc.labels, doc.top_k),
               again |-> zero_shot_from_embedding(doc.emb, doc.labels, doc.top_k)]
    /\ UNCHANGED <<doc, pipeVars>>

NextTagger == TagImage \/ TagEmbedding

SpecTagger == InitTagger /\ [][NextTagger]_vars

----------------------------------------------------------------------------
(* Claims                                                                  *)

Ended == pc \in {"ranked", "done"}

Logged == 1..Len(log)

Elems(s) == { s[n] : n \in 1..Len(s) }

\* C3: an item without a cached embedding whose manifest fetch, image-URL
\* resolution or image fetch fails ends fetch-failed with None recorded at
\* its position, and the run goes on: no iteration that took the fetch path
\* leaves the loop by an exception.
C3_FailureIsolated ==
    \A i \in Logged :
        log[i].cache = "absent" =>
            /\ log[i].trans \in {"fetch-failed", "tagged-and-cached"}
            /\ Len(embeddings) >= i
            /\ (log[i].trans = "fetch-failed" => embeddings[i] = None)

\* C4: extract_image_url returns a string (a URL or the empty string) for
\* every manifest document and never raises.
C4_ResolverNeverRaises ==
    res # NotCalled => (res.exc = "none" /\ res.val.t = "str")

\* C5: an embedding file that exists and cannot be read counts as a cache
\* miss: the item goes through the fetch path and the run is not aborted.
C5_CorruptIsMiss ==
    \A i \in Logged :
        log[i].cache = "torn" =>
            /\ log[i].exc = "none"
            /\ log[i].trans \in {"fetch-failed", "tagged-and-cached"}
            /\ Len(embeddings) >= i

\* C7: after phase2_assign_similar no item's similar_items holds the item's
\* own id, colliding slugs included.
C7_SelfExcluded ==
    Ended => \A i \in 1..Len(items) :
                Has(items[i], "similar_items") =>
                    items[i]["id"] \notin Elems(items[i]["similar_items"])

Counts0(l) ==
    /\ l.manifestFetches = 0 /\ l.imageFetches = 0
    /\ l.embWrites = 0 /\ l.taggerCalls = 0

SkippedAll ==
    /\ \A i \in Logged : log[i].trans = "skipped-cached" /\ Counts0(log[i])
    /\ pc # "crashed"
    /\ pc = "ranked" => items = catalog

C2_RestartSameArtifact ==
    /\ \A i \in 1..Len(embeddings) :
          (pc \in {"phase1", "ranked"} /\ embeddings[i] # None) =>
              /\ items[i]["id"] \in DOMAIN embCache
              /\ embCache[items[i]["id"]] = File(embeddings[i])
    /\ (restarted /\ pc = "ranked") =>
          LET ref == Enrich(catalog, startEmb, startMan, cfg, links)
          IN  ref.exc = "none" /\ items = ref.items

\* C6: an item whose embedding is in the cache when it is reached costs no
\* manifest fetch and no image fetch, with or without --force-retag; a
\* --force-retag run over a fully cached batch recomputes every item's tags
\* from the cached embedding with no fetch at all.
C6_CacheShortCircuit ==
    /\ \A i \in Logged :
          log[i].cache = "present" =>
              log[i].manifestFetches = 0 /\ log[i].imageFetches = 0
    /\ (Ended /\ cfg.force_retag /\ \A i \in Logged : log[i].cache = "present") =>
          \A i \in 1..Len(items) :
              /\ log[i].trans = "tagged-and-cached"
              /\ log[i].taggerCalls = 1
              /\ items[i]["visual_tags"] =
                    Labels(zero_shot_from_embedding(embeddings[i], prompts, cfg.top_tags))

C6_Witness ==
    /\ pc = "done" /\ cfg.force_retag /\ Len(items) >= 2
    /\ \A i \in Logged : log[i].cache = "present"

Succeeded(i) == log[i].trans \in {"tagged-and-cached", "skipped-cached"}

Peers == Len(ValidIndices(embeddings)) - 1

C9_StaleReached ==
    /\ pc = "ranked"
    /\ \E i \in 1..Len(items) : embeddings[i] = None /\ Has(items[i], "similar_items")

\* the three-item batch of C10: A resolves through the sequences structure,
\* B only through the thumbnail, C's manifest fetch or image fetch times out
Resolved(i) ==
    /\ links[i].manifest.status = "ok"
    /\ links[i].image = "ok"

ScenarioABC ==
    /\ Len(items) = 3 /\ Len(log) = 3
    /\ Resolved(1) /\ PrimaryPath(links[1].manifest.body).ret
    /\ Resolved(2) /\ ~PrimaryPath(links[2].manifest.body).ret
    /\ \/ links[3].manifest = Timeout
       \/ links[3].manifest.status = "ok" /\ links[3].image = "timeout"

Neighbours ==
    /\ embeddings[1] # None /\ embeddings[2] # None
    /\ items[1]["similar_items"] = <<items[2]["id"]>>
    /\ items[2]["similar_items"] = <<items[1]["id"]>>

\* C10 as claimed: A and B each hold an embedding and list each other as
\* sole neighbour; C has no image_url, no visual_tags and no similar_items.
C10_Original ==
    (Ended /\ ScenarioABC) =>
        /\ Neighbours
        /\ ~Has(items[3], "image_url")
        /\ ~Has(items[3], "visual_tags")
        /\ ~Has(items[3], "similar_items")

\* C10 as amended: A and B as claimed; C has no visual_tags and no
\* similar_items, and its image_url is the empty string when the manifest
\* fetch timed out and the resolved URL when the image fetch timed out.
C10_Scenario ==
    (Ended /\ ScenarioABC) =>
        /\ Neighbours
        /\ Has(items[3], "image_url")
        /\ items[3]["image_url"] =
              (IF links[3].manifest = Timeout THEN JStr(<<>>)
               ELSE extract_image_url(links[3].manifest.body).val)
        /\ ~Has(items[3], "visual_tags")
        /\ ~Has(items[3], "similar_items")

C10_Witness ==
    /\ pc = "done" /\ ScenarioABC
    /\ links[3].image = "timeout"

\* the terminal states of an item
Terminal(i) == log[i].trans \in {"tagged-and-cached", "fetch-failed", "skipped-cached"}

\* C11: phase2_assign_similar is executed at most once by a process, never
\* while the loop over the items is running, and exactly once by the time the
\* process has passed it; when it has been executed every item of the batch
\* is in a terminal state and the list it was given holds, at each
\* tagged-and-cached or skipped-cached position, that item's embedding as
\* the cache has it.
C11_RankerOnceAfterAll ==
    /\ rankerRuns <= 1
    /\ pc = "phase1" => rankerRuns = 0
    /\ Ended =>
          /\ rankerRuns = 1
          /\ Len(log) = Len(items) /\ Len(embeddings) = Len(items)
          /\ \A i \in 1..Len(items) :
                /\ Terminal(i)
                /\ Succeeded(i) =>
                      /\ embeddings[i] # None
                      /\ i \in Elems(ValidIndices(embeddings))
                      /\ items[i]["id"] \in DOMAIN embCache
                      /\ embCache[items[i]["id"]] = File(embeddings[i])

C11_Witness ==
    /\ pc = "ranked" /\ rankerRuns = 1 /\ Len(items) = 2
    /\ log[1].trans = "skipped-cached"
    /\ log[2].trans \in {"fetch-failed", "tagged-and-cached"}

\* the navigation the fallback order is stated in: a key of an object, the
\* first element of a list, Absent when the value has another shape
Key(x, k) == IF x.t = "dict" /\ k \in DOMAIN x.v THEN x.v[k] ELSE Absent

FirstOf(x) == IF x.t = "list" /\ x.v # <<>> THEN x.v[1] ELSE Absent

NonEmptyStr(x) == x.t = "str" /\ x.v # <<>>

FirstResource(m) ==
    Key(FirstOf(Key(FirstOf(Key(FirstOf(Key(m, "sequences")), "canvases")), "images")),
        "resource")

ThumbnailId(m) ==
    Key(IF Key(m, "thumbnail").t = "list" THEN FirstOf(Key(m, "thumbnail"))
        ELSE Key(m, "thumbnail"), "@id")

FallbackUrl(m) ==
    IF NonEmptyStr(Key(FirstResource(m), "@id")) THEN Key(FirstResource(m), "@id")
    ELSE IF NonEmptyStr(Key(Key(FirstResource(m), "service"), "@id"))
    THEN JStr(Key(Key(FirstResource(m), "service"), "@id").v \o IiifSuffix)
    ELSE IF NonEmptyStr(ThumbnailId(m)) THEN ThumbnailId(m)
    ELSE JStr(<<>>)

\* C12: extract_image_url returns the first resource's @id when non-empty,
\* else the resource's service @id with the IIIF suffix when non-empty, else
\* (also when the sequences structure is missing or malformed) the @id of
\* the thumbnail or of its first element, else the empty string.
C12_FallbackOrder ==
    res # NotCalled => res = Ok(FallbackUrl(doc))

\* the calls of the resolver that return follow the fallback order
C12_OrderWhenReturned ==
    (res # NotCalled /\ res.exc = "none") => res = Ok(FallbackUrl(doc))

\* a malformed sequences structure beside a thumbnail that has an @id
C12_MalformedWithThumbnail ==
    /\ res # NotCalled /\ res.exc # "none"
    /\ NonEmptyStr(ThumbnailId(doc))

\* C13: slugify(title) has no white space, no character other than word
\* characters and hyphens, and at most 80 characters; it is the value the
\* four lines of slugify give for the title alone.
C13_SlugShape ==
    res # NotCalled =>
        /\ res.exc = "none"
        /\ Len(res.val) <= SlugMax
        /\ \A i \in 1..Len(res.val) :
              /\ res.val[i] \notin SpaceChars
              /\ res.val[i] \in WordChars \cup {"-"}
        /\ res.val = slugify(doc)

\* a title whose cleaned form is longer than 80 characters and has white
\* space, an underscore or punctuation in it
C13_Witness ==
    /\ res # NotCalled
    /\ Len(doc) > SlugMax /\ Len(res.val) = SlugMax
    /\ \E i \in 1..Len(doc) : doc[i] \in SpaceChars \cup {"_", "!"}

\* C14: no step of any process changes an embedding file that exists: a
\* file of the cache directory is left as it is or removed with the whole
\* directory, and save_embedding is executed only in an iteration that found
\* no file under the item's id (with or without --force-retag, colliding
\* ids included).
C14_EmbeddingImmutable ==
    [][ /\ \A id \in DOMAIN embCache :
              id \in DOMAIN embCache' => embCache'[id] = embCache[id]
        /\ \A i \in 1..Len(log') :
              log'[i].embWrites = 1 => log'[i].cache = "absent" ]_vars

\* a later process with --force-retag has passed an item whose embedding an
\* earlier process wrote
C14_Witness ==
    /\ pc = "ranked" /\ runs = 2 /\ cfg.force_retag
    /\ \E i \in Logged :
          /\ log[i].cache = "present"
          /\ log[i].trans = "tagged-and-cached"
          /\ items[i]["id"] \in DOMAIN startEmb
          /\ embCache[items[i]["id"]] = startEmb[items[i]["id"]]

PrimaryResolves(m) ==
    \/ NonEmptyStr(Key(FirstResource(m), "@id"))
    \/ NonEmptyStr(Key(Key(FirstResource(m), "service"), "@id"))

\* a manifest that was served, with a sequences field that leads to no
\* image identifier and a thumbnail that has one
ScanCase ==
    /\ res # NotCalled /\ res.manifest = "ok"
    /\ Key(doc, "sequences") # Absent
    /\ ~PrimaryResolves(doc)
    /\ NonEmptyStr(ThumbnailId(doc))

\* C15: in fetch_image_from_manifest a sequences structure that is present
\* and malformed or incomplete counts as not found, and the thumbnail's
\* identifier is requested.
C15_ScannerThumbnailFallback ==
    ScanCase => res.out.gets = <<ThumbnailId(doc).v>>

\* the case of C15 with a sequences structure that is a non-empty list
C15_IncompleteReached ==
    /\ ScanCase /\ Truthy(Key(doc, "sequences"))
    /\ res.out.gets = <<>> /\ res.out.exc = "IndexError"

\* the record of catalog position i with its id set
WithId(i) == Put(catalog[i], "id", slugify(catalog[i]["title"]))

\* C16: while the loop runs, an item that was reached with its embedding in
\* the cache is, when --force-retag is unset and the input record has
\* visual_tags, skipped-cached with no tagger call and every field but id
\* as in the input; otherwise it is tagged-and-cached and differs from the
\* input in id and in visual_tags, which are the top-K labels of the cached
\* embedding.
C16_CachedTransitions ==
    pc = "phase1" =>
        \A i \in Logged :
            log[i].cache = "present" =>
                IF ~cfg.force_retag /\ Has(catalog[i], "visual_tags")
                THEN /\ log[i].trans = "skipped-cached"
                     /\ Counts0(log[i])
                     /\ items[i] = WithId(i)
                ELSE /\ log[i].trans = "tagged-and-cached"
                     /\ log[i].taggerCalls = 1
                     /\ log[i].manifestFetches = 0 /\ log[i].imageFetches = 0
                     /\ log[i].embWrites = 0
                     /\ items[i] =
                           Put(WithId(i), "visual_tags",
                               Labels(Top(SortDesc(
                                   [n \in 1..Len(prompts) |->
                                       <<prompts[n],
                                         Dot(embCache[WithId(i)["id"]].data,
                                             TextFeatures[prompts[n]])>>]),
                                   cfg.top_tags)))

\* without --force-retag one cached item is skipped and another, whose
\* record has no visual_tags, is tagged from the cached embedding
C16_Witness ==
    /\ pc = "phase1" /\ ~cfg.force_retag
    /\ \E i \in Logged :
          /\ log[i].cache = "present" /\ log[i].trans = "skipped-cached"
          /\ Has(items[i], "image_url")
    /\ \E j \in Logged :
          log[j].cache = "present" /\ log[j].trans = "tagged-and-cached"

\* the positions of the batch under test that have an embedding
Embedded == { p \in 1..Len(doc.embs) : doc.embs[p] # None }

Others(i) == Embedded \ {i}

\* position a is a nearer neighbour of i than position b
Nearer(i, a, b) ==
    \/ Dot(doc.embs[i], doc.embs[a]) > Dot(doc.embs[i], doc.embs[b])
    \/ /\ Dot(doc.embs[i], doc.embs[a]) = Dot(doc.embs[i], doc.embs[b])
       /\ a < b

Min(a, b) == IF a <= b THEN a ELSE b

\* the k-th neighbour of i
Neighbour(i, k) ==
    CHOOSE p \in Others(i) : Cardinality({ q \in Others(i) : Nearer(i, q, p) }) = k - 1

\* C17: with at least two embeddings in the batch, every item that has one
\* gets the ids of its min(N, V-1) nearest other embedded items, nearest
\* first by dot product and by catalog position among equals; positions
\* without an embedding contribute to no list.
C17_NeighbourRanking ==
    (res # NotCalled /\ Cardinality(Embedded) >= 2) =>
        \A i \in Embedded :
            /\ Has(res.val[i], "similar_items")
            /\ res.val[i]["similar_items"] =
                  [k \in 1..Min(doc.top_similar, Cardinality(Embedded) - 1) |->
                      doc.items[Neighbour(i, k)]["id"]]

\* a batch with a position that has no embedding, two neighbours of equal
\* score and fewer neighbours asked for than there are
C17_Witness ==
    /\ res # NotCalled
    /\ Cardinality(Embedded) = 3 /\ Len(doc.embs) = 4 /\ doc.top_similar = 2
    /\ \E i \in Embedded : \E a, b \in Others(i) :
          /\ a < b
          /\ Dot(doc.embs[i], doc.embs[a]) = Dot(doc.embs[i], doc.embs[b])
          /\ res.val[i]["similar_items"] = <<doc.items[a]["id"], doc.items[b]["id"]>>

\* C18: with no embedding or exactly one in the batch, phase2_assign_similar
\* leaves every item as it was: no similar_items is added, changed or
\* removed.
C18_NoOpBelowTwo ==
    (res # NotCalled /\ Cardinality(Embedded) < 2) => res.val = doc.items

\* one embedding among several items that carry an earlier run's list
C18_Witness ==
    /\ res # NotCalled
    /\ Cardinality(Embedded) = 1 /\ Len(doc.embs) >= 2 /\ doc.top_similar >= 1
    /\ \A i \in 1..Len(doc.items) :
          /\ Has(res.val[i], "similar_items")
          /\ res.val[i]["similar_items"] = StaleList

\* the score of the label at vocabulary position p in the call under test
Score(p) == Dot(doc.emb, TextFeatures[doc.labels[p]])

\* vocabulary position q ranks before position p
RanksBefore(q, p) ==
    \/ Score(q) > Score(p)
    \/ Score(q) = Score(p) /\ q < p

\* the vocabulary position of rank k
Ranked(k) ==
    CHOOSE p \in 1..Len(doc.labels) :
        Cardinality({ q \in 1..Len(doc.labels) : RanksBefore(q, p) }) = k - 1

\* C19: the tagger returns min(K, L) labels of the vocabulary, all
\* different (and of different tag names), by non-increasing score and in
\* vocabulary order among equal scores, whatever the order of the
\* vocabulary; computed from the image and from its embedding the list is
\* the same.
C19_TagRanking ==
    res # NotCalled =>
        /\ res.val = [k \in 1..Min(doc.top_k, Len(doc.labels)) |-> doc.labels[Ranked(k)]]
        /\ Cardinality(Elems(res.val)) = Len(res.val)
        /\ Cardinality(Elems(Labels(res.val))) = Len(res.val)
        /\ res.again = res.val

\* an image whose best label is not the first of the vocabulary, two labels
\* of equal score and fewer tags asked for than there are labels
C19_Witness ==
    /\ res # NotCalled /\ doc.image # 0
    /\ Len(doc.labels) = 3 /\ doc.top_k = 2
    /\ Score(1) < Score(2) /\ Score(2) = Score(3)
    /\ res.val = <<doc.labels[2], doc.labels[3]>>

\* the loop of phase1_fetch_and_tag has passed every item without an
\* exception
Phase1Returned ==
    \/ pc = "phase1" /\ Len(log) = Len(items)
    \/ pc = "ranked"

\* C20: when phase1_fetch_and_tag returns, the embeddings list has one entry
\* per item; entry i is None exactly when item i ended fetch-failed, and is
\* otherwise what the cache holds under item i's id, and that item has
\* visual_tags.
C20_IndexAligned ==
    Phase1Returned =>
        /\ Len(embeddings) = Len(items)
        /\ \A i \in 1..Len(items) :
              /\ embeddings[i] = None <=> log[i].trans = "fetch-failed"
              /\ embeddings[i] # None =>
                    /\ items[i]["id"] \in DOMAIN embCache
                    /\ embCache[items[i]["id"]] = File(embeddings[i])
                    /\ Has(items[i], "visual_tags")

\* phase 1 has returned with an absent entry before a present one
C20_Witness ==
    /\ pc = "phase1" /\ Len(log) = Len(items) /\ Len(items) = 2
    /\ embeddings[1] = None /\ embeddings[2] # None

====
